---- MODULE Spec2Model ----
(***************************************************************************)
(* Model of the TemperatureProfileForm component                           *)
(* (src/src/components/temperatureProfileForm.tsx): the form values, the   *)
(* sleep-duration effect, the profile-load effect, and the update / delete *)
(* mutations.                                                              *)
(*                                                                         *)
(* Representation.                                                         *)
(*   - A time string is a sequence of one-character strings, "22:00" is    *)
(*     <<"2","2",":","0","0">>, and the empty string is << >>.             *)
(*   - A Date is the number of milliseconds since local midnight of        *)
(*     2000-01-01, the day the effect builds its dates on.                 *)
(*   - A form sleep level is a JavaScript number with at most one decimal  *)
(*     digit, [whole |-> w, tenth |-> t] standing for w + t/10, t in 0..9. *)
(*   - React runs the effect of a render before the next event handler     *)
(*     sees the form, so a value change and the effect it triggers are one *)
(*     step.                                                               *)
(***************************************************************************)
EXTENDS Integers, Sequences, FiniteSets, TLC

\* ------------------------------------------------------------------------
\* Bounds of the model
\* ------------------------------------------------------------------------

\* Requests of one kind that may be outstanding before the model stops
\* issuing more (the code keeps no such counter).
MaxInFlight == 2

\* Edits the user makes to the form fields in one session.
MaxEdits == 2

\* ------------------------------------------------------------------------
\* Strings and dates
\* ------------------------------------------------------------------------

Null == "null"

Digits == <<"0", "1", "2", "3", "4", "5", "6", "7", "8", "9">>

DigitChar(n) == Digits[n + 1]

DigitVal(c) == CHOOSE d \in 0..9 : Digits[d + 1] = c

IsDigit(c) == \E d \in 0..9 : Digits[d + 1] = c

\* The "HH:MM" string of an hour and a minute, zero padded.
TimeString(h, m) ==
    <<DigitChar(h \div 10), DigitChar(h % 10), ":",
      DigitChar(m \div 10), DigitChar(m % 10)>>

\* z.string().regex(/^\d{2}:\d{2}$/)
MatchesHHMM(s) ==
    /\ Len(s) = 5
    /\ IsDigit(s[1]) /\ IsDigit(s[2])
    /\ s[3] = ":"
    /\ IsDigit(s[4]) /\ IsDigit(s[5])

\* s.slice(0, 5)
Slice5(s) == IF Len(s) <= 5 THEN s ELSE SubSeq(s, 1, 5)

\* new Date(`2000-01-01T${time}:00`), local time
NewDate(time) ==
    ((DigitVal(time[1]) * 10 + DigitVal(time[2])) * 60
       + DigitVal(time[4]) * 10 + DigitVal(time[5])) * 60 * 1000

MsPerHour == 1000 * 60 * 60

MsPerMinute == 1000 * 60

MsPerDay == 24 * MsPerHour

\* date.toTimeString().slice(0, 5): the local wall-clock "HH:MM" of a date
ToTimeString5(date) ==
    TimeString((date \div MsPerHour) % 24, (date \div MsPerMinute) % 60)

\* ------------------------------------------------------------------------
\* The sleep-duration effect
\* ------------------------------------------------------------------------

SleepDurationMessage == "Sleep duration must be at least 4 hours."

EmptySleepInfo == [duration |-> << >>, midStageTime |-> << >>, finalStageTime |-> << >>]

BedDate(bed) == NewDate(bed)

\* the rollover test written with < instead of <=
WakeDateStrict(bed, wake) ==
    IF NewDate(wake) < NewDate(bed) THEN NewDate(wake) + MsPerDay
                                    ELSE NewDate(wake)

\* wakeDate after "if (wakeDate <= bedDate) wakeDate.setDate(getDate() + 1)"
WakeDate(bed, wake) ==
    IF NewDate(wake) <= NewDate(bed) THEN NewDate(wake) + MsPerDay
                                     ELSE NewDate(wake)

DurationMs(bed, wake) == WakeDate(bed, wake) - BedDate(bed)

Hours(bed, wake) == DurationMs(bed, wake) \div MsPerHour

\* Math.round((durationMs % 3600000) / 60000): round half up
Minutes(bed, wake) ==
    (2 * (DurationMs(bed, wake) % MsPerHour) + MsPerMinute) \div (2 * MsPerMinute)

\* the minimum-duration test with a floor of 2 hours
TooShortLax(bed, wake) == Hours(bed, wake) < 2

TooShort(bed, wake) == Hours(bed, wake) < 4

MidStageDate(bed, wake) == BedDate(bed) + 60 * 60 * 1000

\* the final stage placed 1 hour before wakeup
FinalStageDateOneHour(bed, wake) == WakeDate(bed, wake) - 1 * 60 * 60 * 1000

FinalStageDate(bed, wake) == WakeDate(bed, wake) - 2 * 60 * 60 * 1000

\* `${hours} hours ${minutes} minutes`
DurationText(bed, wake) == <<Hours(bed, wake), " hours ", Minutes(bed, wake), " minutes">>

\* The state the effect leaves behind: [error, info].  prevError and prevInfo
\* are kept when either time is empty.
SleepDurationEffect(bed, wake, prevError, prevInfo) ==
    IF bed # << >> /\ wake # << >>
    THEN IF TooShort(bed, wake)
         THEN [error |-> SleepDurationMessage, info |-> EmptySleepInfo]
         ELSE [error |-> Null,
               info  |-> [duration       |-> DurationText(bed, wake),
                          midStageTime   |-> ToTimeString5(MidStageDate(bed, wake)),
                          finalStageTime |-> ToTimeString5(FinalStageDate(bed, wake))]]
    ELSE [error |-> prevError, info |-> prevInfo]

\* ------------------------------------------------------------------------
\* Sleep levels and the wire format
\* ------------------------------------------------------------------------

Num(w, t) == [whole |-> w, tenth |-> t]

\* profile.xSleepLevel / 10
Decode(stored) == Num(stored \div 10, stored % 10)

\* the level rounded without the scaling by 10
EncodeUnscaled(level) == IF level.tenth >= 5 THEN level.whole + 1 ELSE level.whole

\* Math.round(data.xSleepLevel * 10)
Encode(level) == level.whole * 10 + level.tenth

\* Math.max(-10, Number(value) - 1)
Decrement(value) ==
    IF value.whole - 1 < -10 THEN Num(-10, 0) ELSE Num(value.whole - 1, value.tenth)

\* Math.min(10, Number(value) + 1)
Increment(value) ==
    IF value.whole + 1 > 10 \/ (value.whole + 1 = 10 /\ value.tenth > 0)
    THEN Num(10, 0) ELSE Num(value.whole + 1, value.tenth)

\* z.number().min(-10).max(10)
LevelInRange(value) ==
    /\ value.whole >= -10
    /\ value.whole < 10 \/ (value.whole = 10 /\ value.tenth = 0)

\* formatTimeForAPI: `${time}:00.000000`
FormatTimeForAPI(time) ==
    time \o <<":", "0", "0", ".", "0", "0", "0", "0", "0", "0">>

\* the timezone object of the form: the default has only a value, the
\* object the select widget hands over carries a label as well
DefaultTimezone == [value |-> "America/New_York"]

WidgetTimezone(tz) == [value |-> tz, label |-> tz]

LoadedTimezone(tz) == [value |-> tz]

defaultValues ==
    [bedTime            |-> TimeString(22, 0),
     wakeupTime         |-> TimeString(6, 0),
     initialSleepLevel  |-> Num(0, 0),
     midStageSleepLevel |-> Num(0, 0),
     finalSleepLevel    |-> Num(0, 0),
     timezone           |-> DefaultTimezone]

LevelFields == {"initialSleepLevel", "midStageSleepLevel", "finalSleepLevel"}

\* zodResolver(temperatureProfileSchema) accepts the form values
SchemaAccepts(v) ==
    /\ MatchesHHMM(v.bedTime)
    /\ MatchesHHMM(v.wakeupTime)
    /\ LevelInRange(v.initialSleepLevel)
    /\ LevelInRange(v.midStageSleepLevel)
    /\ LevelInRange(v.finalSleepLevel)

\* mutationData of onSubmit
MutationData(data) ==
    [bedTime            |-> FormatTimeForAPI(data.bedTime),
     wakeupTime         |-> FormatTimeForAPI(data.wakeupTime),
     initialSleepLevel  |-> Encode(data.initialSleepLevel),
     midStageSleepLevel |-> Encode(data.midStageSleepLevel),
     finalSleepLevel    |-> Encode(data.finalSleepLevel),
     timezoneTZ         |-> data.timezone.value]

\* the six setValue calls of the profile-load effect
LoadedValues(profile) ==
    [bedTime            |-> Slice5(profile.bedTime),
     wakeupTime         |-> Slice5(profile.wakeupTime),
     initialSleepLevel  |-> Decode(profile.initialSleepLevel),
     midStageSleepLevel |-> Decode(profile.midStageSleepLevel),
     finalSleepLevel    |-> Decode(profile.finalSleepLevel),
     timezone           |-> LoadedTimezone(profile.timezoneTZ)]

\* ------------------------------------------------------------------------
\* Inputs
\* ------------------------------------------------------------------------

\* a stored time, "HH:MM:SS"
WireTime(h, m) == TimeString(h, m) \o <<":", "0", "0">>

\* what a time input can hold: empty, or a wall-clock time
EditTimes ==
    {<< >>, TimeString(2, 0), TimeString(23, 30)}

EditTimezones == {"Europe/Berlin"}

\* records the profile store can return
StoredProfiles ==
    {[bedTime            |-> WireTime(23, 30),
      wakeupTime         |-> WireTime(2, 0),
      initialSleepLevel  |-> -100,
      midStageSleepLevel |-> 0,
      finalSleepLevel    |-> 100,
      timezoneTZ         |-> "Europe/Berlin"],
     [bedTime            |-> WireTime(21, 0),
      wakeupTime         |-> WireTime(5, 0),
      initialSleepLevel  |-> -15,
      midStageSleepLevel |-> 20,
      finalSleepLevel    |-> 110,
      timezoneTZ         |-> "America/New_York"]}

\* ------------------------------------------------------------------------
\* State
\* ------------------------------------------------------------------------

VARIABLES
    values,             \* react-hook-form's form values
    isDirty,            \* formState.isDirty
    isLoading,          \* useState(true)
    isExistingProfile,  \* useState(false)
    sleepDurationError, \* useState<string | null>(null)
    sleepInfo,          \* useState({duration, midStageTime, finalStageTime})
    query,              \* getUserTemperatureProfileQuery: status and data
    updateStatus,       \* updateProfileMutation.status
    deleteStatus,       \* deleteProfileMutation.status
    updateRequests,     \* payloads of the write requests in flight
    deleteRequests,     \* number of delete requests in flight
    edits,              \* edits the user has made so far
    pc                  \* "form" in a session; the step of a calculation run

vars == <<values, isDirty, isLoading, isExistingProfile, sleepDurationError,
          sleepInfo, query, updateStatus, deleteStatus, updateRequests,
          deleteRequests, edits, pc>>

\* the component after its first render and the first run of its effects
Mounted ==
    /\ values = defaultValues
    /\ isDirty = FALSE
    /\ isLoading = TRUE
    /\ isExistingProfile = FALSE
    /\ sleepDurationError =
         SleepDurationEffect(defaultValues.bedTime, defaultValues.wakeupTime,
                             Null, EmptySleepInfo).error
    /\ sleepInfo =
         SleepDurationEffect(defaultValues.bedTime, defaultValues.wakeupTime,
                             Null, EmptySleepInfo).info
    /\ query = [status |-> "pending", data |-> {}]
    /\ updateStatus = "idle"
    /\ deleteStatus = "idle"
    /\ updateRequests = << >>
    /\ deleteRequests = 0
    /\ edits = 0

Init == Mounted /\ pc = "form"

\* the form values become v; the sleep-duration effect runs on them
SetValuesAndRecompute(v) ==
    LET after == SleepDurationEffect(v.bedTime, v.wakeupTime, sleepDurationError, sleepInfo)
    IN  /\ values' = v
        /\ sleepDurationError' = after.error
        /\ sleepInfo' = after.info

\* ------------------------------------------------------------------------
\* The profile query
\* ------------------------------------------------------------------------

\* the query succeeds with a profile: the effect's isSuccess branch
QuerySuccess(profile) ==
    /\ pc = "form"
    /\ query.status # "success" \/ query.data # {profile}
    /\ query' = [status |-> "success", data |-> {profile}]
    /\ SetValuesAndRecompute(LoadedValues(profile))
    /\ isExistingProfile' = TRUE
    /\ isLoading' = FALSE
    /\ UNCHANGED <<isDirty, updateStatus, deleteStatus, updateRequests,
                   deleteRequests, edits, pc>>

\* the query fails: the effect's isError branch
QueryError ==
    /\ pc = "form"
    /\ query.status # "error"
    /\ query' = [status |-> "error", data |-> query.data]
    /\ isExistingProfile' = FALSE
    /\ isLoading' = FALSE
    /\ UNCHANGED <<values, isDirty, sleepDurationError, sleepInfo, updateStatus,
                   deleteStatus, updateRequests, deleteRequests, edits, pc>>

\* ------------------------------------------------------------------------
\* Editing
\* ------------------------------------------------------------------------

\* a field's onChange: the value changes and isDirty is recomputed against
\* the default values
UserEdit(v) ==
    /\ pc = "form"
    /\ ~isLoading
    /\ v # values
    /\ edits < MaxEdits
    /\ edits' = edits + 1
    /\ SetValuesAndRecompute(v)
    /\ isDirty' = (v # defaultValues)
    /\ UNCHANGED <<isLoading, isExistingProfile, query, updateStatus, deleteStatus,
                   updateRequests, deleteRequests, pc>>

EditBedTime(t) == UserEdit([values EXCEPT !.bedTime = t])

EditWakeupTime(t) == UserEdit([values EXCEPT !.wakeupTime = t])

EditTimezone(tz) == UserEdit([values EXCEPT !.timezone = WidgetTimezone(tz)])

\* the "-" button of a level input
DecrementLevel(name) == UserEdit([values EXCEPT ![name] = Decrement(values[name])])

\* the "+" button of a level input
IncrementLevel(name) == UserEdit([values EXCEPT ![name] = Increment(values[name])])

\* ------------------------------------------------------------------------
\* Submit and delete
\* ------------------------------------------------------------------------

\* the disabled attribute without the isPending test
SubmitDisabledIgnoringPending == sleepDurationError # Null \/ ~isDirty

\* the submit button's disabled attribute
SubmitDisabled ==
    updateStatus = "pending" \/ sleepDurationError # Null \/ ~isDirty

\* the delete button's disabled attribute
DeleteDisabled == deleteStatus = "pending"

\* handleSubmit(onSubmit): the resolver accepts, onSubmit passes its guard
\* and calls updateProfileMutation.mutate
Submit ==
    /\ pc = "form"
    /\ ~isLoading
    /\ ~SubmitDisabled
    /\ SchemaAccepts(values)
    /\ sleepDurationError = Null
    /\ Len(updateRequests) < MaxInFlight
    /\ updateRequests' = Append(updateRequests, MutationData(values))
    /\ updateStatus' = "pending"
    /\ UNCHANGED <<values, isDirty, isLoading, isExistingProfile, sleepDurationError,
                   sleepInfo, query, deleteStatus, deleteRequests, edits, pc>>

UpdateSuccess ==
    /\ pc = "form"
    /\ updateRequests # << >>
    /\ updateRequests' = Tail(updateRequests)
    /\ updateStatus' = "success"
    /\ isExistingProfile' = TRUE
    /\ UNCHANGED <<values, isDirty, isLoading, sleepDurationError, sleepInfo, query,
                   deleteStatus, deleteRequests, edits, pc>>

UpdateError ==
    /\ pc = "form"
    /\ updateRequests # << >>
    /\ updateRequests' = Tail(updateRequests)
    /\ updateStatus' = "error"
    /\ UNCHANGED <<values, isDirty, isLoading, isExistingProfile, sleepDurationError,
                   sleepInfo, query, deleteStatus, deleteRequests, edits, pc>>

\* onDelete, confirmed: deleteProfileMutation.mutate()
Delete ==
    /\ pc = "form"
    /\ ~isLoading
    /\ isExistingProfile
    /\ ~DeleteDisabled
    /\ deleteRequests < MaxInFlight
    /\ deleteRequests' = deleteRequests + 1
    /\ deleteStatus' = "pending"
    /\ UNCHANGED <<values, isDirty, isLoading, isExistingProfile, sleepDurationError,
                   sleepInfo, query, updateStatus, updateRequests, edits, pc>>

\* onSuccess of the delete without the reset() call
DeleteSuccessNoReset ==
    /\ pc = "form"
    /\ deleteRequests > 0
    /\ deleteRequests' = deleteRequests - 1
    /\ deleteStatus' = "success"
    /\ isExistingProfile' = FALSE
    /\ UNCHANGED <<values, isDirty, sleepDurationError, sleepInfo, isLoading, query,
                   updateStatus, updateRequests, edits, pc>>

\* deleteProfileMutation.onSuccess: setIsExistingProfile(false); reset()
DeleteSuccess ==
    /\ pc = "form"
    /\ deleteRequests > 0
    /\ deleteRequests' = deleteRequests - 1
    /\ deleteStatus' = "success"
    /\ isExistingProfile' = FALSE
    /\ SetValuesAndRecompute(defaultValues)
    /\ isDirty' = FALSE
    /\ UNCHANGED <<isLoading, query, updateStatus, updateRequests, edits, pc>>

\* deleteProfileMutation.onError
DeleteError ==
    /\ pc = "form"
    /\ deleteRequests > 0
    /\ deleteRequests' = deleteRequests - 1
    /\ deleteStatus' = "error"
    /\ UNCHANGED <<values, isDirty, isLoading, isExistingProfile, sleepDurationError,
                   sleepInfo, query, updateStatus, updateRequests, edits, pc>>

Next ==
    \/ \E profile \in StoredProfiles : QuerySuccess(profile)
    \/ QueryError
    \/ \E t \in EditTimes : EditBedTime(t)
    \/ \E t \in EditTimes : EditWakeupTime(t)
    \/ \E tz \in EditTimezones : EditTimezone(tz)
    \/ \E name \in LevelFields : DecrementLevel(name)
    \/ \E name \in LevelFields : IncrementLevel(name)
    \/ Submit
    \/ UpdateSuccess
    \/ UpdateError
    \/ Delete
    \/ DeleteSuccess
    \/ DeleteError

Spec == Init /\ [][Next]_vars

TypeOK ==
    /\ isDirty \in BOOLEAN
    /\ isLoading \in BOOLEAN
    /\ isExistingProfile \in BOOLEAN
    /\ sleepDurationError \in {Null, SleepDurationMessage}
    /\ updateStatus \in {"idle", "pending", "success", "error"}
    /\ deleteStatus \in {"idle", "pending", "success", "error"}
    /\ Len(updateRequests) \in 0..MaxInFlight
    /\ deleteRequests \in 0..MaxInFlight

\* ------------------------------------------------------------------------
\* Calculation runs: the effect and the codec applied to drawn inputs
\* ------------------------------------------------------------------------

\* bed times of the calculation runs, as minutes of the day
CalcBedMinutes == {0, 1, 60, 119, 480, 720, 1200, 1260, 1320, 1380, 1410, 1439}

\* wake times of the calculation runs: every minute of the day
CalcWakeMinutes == 0..1439

\* stored sleep levels of the calculation runs
CalcStoredLevels == -100..100

\* form sleep levels of the calculation runs
CalcFormLevels == -10..10

ClockString(minute) == TimeString(minute \div 60, minute % 60)

\* a stored profile that differs from the defaults in one sleep level
ProfileWithLevel(stored) ==
    [bedTime            |-> WireTime(22, 0),
     wakeupTime         |-> WireTime(6, 0),
     initialSleepLevel  |-> stored,
     midStageSleepLevel |-> 0,
     finalSleepLevel    |-> 0,
     timezoneTZ         |-> "America/New_York"]

CalcInit == Mounted /\ pc = "input"

\* both time fields are set and the sleep-duration effect runs
CalcSchedule(bed, wake) ==
    /\ pc = "input"
    /\ SetValuesAndRecompute([values EXCEPT !.bedTime = ClockString(bed),
                                            !.wakeupTime = ClockString(wake)])
    /\ pc' = "scheduled"
    /\ UNCHANGED <<isDirty, isLoading, isExistingProfile, query, updateStatus,
                   deleteStatus, updateRequests, deleteRequests, edits>>

\* a stored profile is loaded into the form
CalcDecode(stored) ==
    /\ pc = "input"
    /\ query' = [status |-> "success", data |-> {ProfileWithLevel(stored)}]
    /\ SetValuesAndRecompute(LoadedValues(ProfileWithLevel(stored)))
    /\ pc' = "decoded"
    /\ UNCHANGED <<isDirty, isLoading, isExistingProfile, updateStatus,
                   deleteStatus, updateRequests, deleteRequests, edits>>

\* the loaded form is turned into a write payload
CalcEncodeDecoded ==
    /\ pc = "decoded"
    /\ updateRequests' = <<MutationData(values)>>
    /\ pc' = "reencoded"
    /\ UNCHANGED <<values, isDirty, isLoading, isExistingProfile, sleepDurationError,
                   sleepInfo, query, updateStatus, deleteStatus, deleteRequests, edits>>

\* a form with a given sleep level is turned into a write payload
CalcEncode(level) ==
    /\ pc = "input"
    /\ values' = [values EXCEPT !.initialSleepLevel = Num(level, 0)]
    /\ updateRequests' = <<MutationData(values')>>
    /\ pc' = "encoded"
    /\ UNCHANGED <<isDirty, isLoading, isExistingProfile, sleepDurationError,
                   sleepInfo, query, updateStatus, deleteStatus, deleteRequests, edits>>

\* the payload comes back from the store and is loaded into the form
CalcDecodeEncoded ==
    /\ pc = "encoded"
    /\ query' = [status |-> "success", data |-> {updateRequests[1]}]
    /\ SetValuesAndRecompute(LoadedValues(updateRequests[1]))
    /\ pc' = "redecoded"
    /\ UNCHANGED <<isDirty, isLoading, isExistingProfile, updateStatus,
                   deleteStatus, updateRequests, deleteRequests, edits>>

CalcNext ==
    \/ pc = "input" /\ \E bed \in CalcBedMinutes, wake \in CalcWakeMinutes :
                          CalcSchedule(bed, wake)
    \/ pc = "input" /\ \E stored \in CalcStoredLevels : CalcDecode(stored)
    \/ CalcEncodeDecoded
    \/ pc = "input" /\ \E level \in CalcFormLevels : CalcEncode(level)
    \/ CalcDecodeEncoded

CalcSpec == CalcInit /\ [][CalcNext]_vars

\* ------------------------------------------------------------------------
\* The specification's vocabulary
\* ------------------------------------------------------------------------

\* TimeOfDay: minutes since local midnight of an "HH:MM" string
MinuteOfDay(time) ==
    (DigitVal(time[1]) * 10 + DigitVal(time[2])) * 60
      + DigitVal(time[4]) * 10 + DigitVal(time[5])

bedMinutes == MinuteOfDay(values.bedTime)

wakeMinutes == MinuteOfDay(values.wakeupTime)

wakeIsNextDay == wakeMinutes <= bedMinutes

wakeAdjusted == IF wakeIsNextDay THEN wakeMinutes + 1440 ELSE wakeMinutes

durationMinutes == wakeAdjusted - bedMinutes

\* the state holds the result of the effect for a drawn (bed, wake) pair
Scheduled == pc = "scheduled"

IsInvalid == sleepDurationError = SleepDurationMessage

IsValid == sleepDurationError = Null

\* ------------------------------------------------------------------------
\* C1
\* ------------------------------------------------------------------------

\* C1: for every (bed, wake) whose duration is below 240 minutes the effect
\* leaves the error "Sleep duration must be at least 4 hours." and clears
\* duration, midStageTime and finalStageTime to the empty string.
C1_ShortWindowInvalid ==
    (Scheduled /\ durationMinutes < 240) =>
        /\ sleepDurationError = "Sleep duration must be at least 4 hours."
        /\ sleepInfo.duration = << >>
        /\ sleepInfo.midStageTime = << >>
        /\ sleepInfo.finalStageTime = << >>

\* a window of 239 minutes that crosses midnight has been evaluated
C1_Witness ==
    /\ Scheduled
    /\ wakeIsNextDay
    /\ durationMinutes = 239
    /\ IsInvalid
    /\ sleepInfo = EmptySleepInfo

\* ------------------------------------------------------------------------
\* C3
\* ------------------------------------------------------------------------

\* C3: for every (bed, wake) with a duration of at least 240 minutes,
\* midStageTime is (bed + 60) mod 1440, finalStageTime is
\* (wake_adjusted - 120) mod 1440, and finalStageTime is 120 minutes before
\* wakeupTime modulo a day.
C3_StageTimes ==
    (Scheduled /\ durationMinutes >= 240) =>
        /\ MinuteOfDay(sleepInfo.midStageTime) = (bedMinutes + 60) % 1440
        /\ MinuteOfDay(sleepInfo.finalStageTime) = (wakeAdjusted - 120) % 1440
        /\ (MinuteOfDay(sleepInfo.finalStageTime) + 120) % 1440 = wakeMinutes

\* scenario A of the specification: 22:00 to 06:00 gives 23:00 and 04:00
C3_Witness ==
    /\ Scheduled
    /\ values.bedTime = <<"2", "2", ":", "0", "0">>
    /\ values.wakeupTime = <<"0", "6", ":", "0", "0">>
    /\ sleepInfo.midStageTime = <<"2", "3", ":", "0", "0">>
    /\ sleepInfo.finalStageTime = <<"0", "4", ":", "0", "0">>
    /\ sleepInfo.duration = <<8, " hours ", 0, " minutes">>

\* ------------------------------------------------------------------------
\* C4
\* ------------------------------------------------------------------------

\* C4: when wake <= bed the wake date is moved to the following day and the
\* duration is wake - bed + 1440 minutes; when wake > bed the duration is
\* wake - bed minutes.  A valid window displays that duration.
C4_Duration ==
    Scheduled =>
        /\ wakeMinutes <= bedMinutes =>
             /\ WakeDate(values.bedTime, values.wakeupTime)
                  = NewDate(values.wakeupTime) + 24 * 60 * 60 * 1000
             /\ DurationMs(values.bedTime, values.wakeupTime)
                  = (wakeMinutes - bedMinutes + 1440) * 60 * 1000
        /\ wakeMinutes > bedMinutes =>
             /\ WakeDate(values.bedTime, values.wakeupTime) = NewDate(values.wakeupTime)
             /\ DurationMs(values.bedTime, values.wakeupTime)
                  = (wakeMinutes - bedMinutes) * 60 * 1000
        /\ IsValid =>
             sleepInfo.duration[1] * 60 + sleepInfo.duration[3] = durationMinutes

\* a window whose wake time is earlier on the clock than its bed time
C4_Witness ==
    /\ Scheduled
    /\ wakeMinutes < bedMinutes
    /\ IsValid
    /\ sleepInfo.duration = <<5, " hours ", 1, " minutes">>

\* ------------------------------------------------------------------------
\* C5
\* ------------------------------------------------------------------------

\* C5 as stated: the computed duration always lies in [0, 1440) minutes.
C5_Original ==
    Scheduled =>
        /\ DurationMs(values.bedTime, values.wakeupTime) >= 0
        /\ DurationMs(values.bedTime, values.wakeupTime) < 1440 * 60 * 1000

\* C5 amended: the computed duration always lies in [1, 1440] minutes; it is
\* 1440 minutes exactly when wake equals bed, and 0 is never produced.
C5_DurationRange ==
    Scheduled =>
        /\ DurationMs(values.bedTime, values.wakeupTime) >= 1 * 60 * 1000
        /\ DurationMs(values.bedTime, values.wakeupTime) <= 1440 * 60 * 1000
        /\ (DurationMs(values.bedTime, values.wakeupTime) = 1440 * 60 * 1000)
             <=> (values.wakeupTime = values.bedTime)

\* 12:00 to 12:00 has been evaluated: 1440 minutes
C5_Witness ==
    /\ Scheduled
    /\ bedMinutes = 720
    /\ wakeMinutes = 720
    /\ DurationMs(values.bedTime, values.wakeupTime) = 1440 * 60 * 1000
    /\ sleepInfo.duration = <<24, " hours ", 0, " minutes">>

\* ------------------------------------------------------------------------
\* C6
\* ------------------------------------------------------------------------

\* C6 as stated: a window with bed == wake is Invalid.
C6_Original ==
    (Scheduled /\ values.bedTime = values.wakeupTime) => IsInvalid

\* C6 amended: a window with bed == wake == t is moved to the following day
\* and passes the ordinary duration check as a 24-hour window: the result is
\* Valid with "24 hours 0 minutes", midStageTime t + 60 and finalStageTime
\* t - 120 modulo a day, and the duration error does not block submission.
C6_EqualTimesValid ==
    (Scheduled /\ values.bedTime = values.wakeupTime) =>
        /\ sleepDurationError = Null
        /\ sleepInfo.duration = <<24, " hours ", 0, " minutes">>
        /\ MinuteOfDay(sleepInfo.midStageTime) = (bedMinutes + 60) % 1440
        /\ MinuteOfDay(sleepInfo.finalStageTime) = (bedMinutes + 1440 - 120) % 1440

\* 00:00 to 00:00 has been evaluated
C6_Witness ==
    /\ Scheduled
    /\ values.bedTime = <<"0", "0", ":", "0", "0">>
    /\ values.wakeupTime = <<"0", "0", ":", "0", "0">>
    /\ sleepInfo.finalStageTime = <<"2", "2", ":", "0", "0">>

\* ------------------------------------------------------------------------
\* C7
\* ------------------------------------------------------------------------

\* C7: in every Valid window the mid-stage instant bed + 60 is not later
\* than the final-stage instant wake_adjusted - 120, and both lie between
\* the bed instant and the adjusted wake instant.
C7_StagesOrdered ==
    (Scheduled /\ IsValid) =>
        /\ BedDate(values.bedTime) <= MidStageDate(values.bedTime, values.wakeupTime)
        /\ MidStageDate(values.bedTime, values.wakeupTime)
             <= FinalStageDate(values.bedTime, values.wakeupTime)
        /\ FinalStageDate(values.bedTime, values.wakeupTime)
             <= WakeDate(values.bedTime, values.wakeupTime)
        /\ MidStageDate(values.bedTime, values.wakeupTime)
             = (bedMinutes + 60) * 60 * 1000
        /\ FinalStageDate(values.bedTime, values.wakeupTime)
             = (wakeAdjusted - 120) * 60 * 1000

\* the shortest Valid window: the two instants are 60 minutes apart
C7_Witness ==
    /\ Scheduled
    /\ IsValid
    /\ durationMinutes = 240
    /\ FinalStageDate(values.bedTime, values.wakeupTime)
         - MidStageDate(values.bedTime, values.wakeupTime) = 60 * 60 * 1000

\* ------------------------------------------------------------------------
\* C8
\* ------------------------------------------------------------------------

\* the stored profile the query holds
LoadedProfile == CHOOSE profile \in query.data : TRUE

\* C8: loading a stored level that is a multiple of 10 in [-100, 100] and
\* building the write payload from it gives the stored level back, and
\* writing an integer form level in [-10, 10] and loading the payload gives
\* the form level back.
C8_CodecRoundTrip ==
    /\ [](pc = "reencoded"
            /\ LoadedProfile.initialSleepLevel % 10 = 0
            /\ LoadedProfile.initialSleepLevel >= -100
            /\ LoadedProfile.initialSleepLevel <= 100
          => updateRequests[1].initialSleepLevel = LoadedProfile.initialSleepLevel)
    /\ [][pc = "encoded" /\ pc' = "redecoded"
            /\ values.initialSleepLevel.tenth = 0
            /\ values.initialSleepLevel.whole >= -10
            /\ values.initialSleepLevel.whole <= 10
          => values'.initialSleepLevel = values.initialSleepLevel]_vars

\* scenario D of the specification: the form level -10 was written as -100
\* and read back as -10
C8_Witness ==
    /\ pc = "redecoded"
    /\ updateRequests[1].initialSleepLevel = -100
    /\ values.initialSleepLevel = [whole |-> -10, tenth |-> 0]

\* ------------------------------------------------------------------------
\* C2
\* ------------------------------------------------------------------------

\* the current bed and wake values form a Valid window
WindowValid ==
    /\ MatchesHHMM(values.bedTime)
    /\ MatchesHHMM(values.wakeupTime)
    /\ durationMinutes >= 240

\* C2: a write request is issued only when the current bed and wake values
\* form a Valid window; it is never issued while their validity is Invalid.
C2_NoWriteWhileInvalid ==
    [][Len(updateRequests') > Len(updateRequests) => WindowValid]_vars

\* after a successful write the user made the window Invalid: the form is
\* dirty, passes the schema and nothing is pending, and only the duration
\* error keeps the submit from going out
C2_Witness ==
    /\ pc = "form"
    /\ updateStatus = "success"
    /\ isDirty
    /\ SchemaAccepts(values)
    /\ durationMinutes < 240
    /\ sleepDurationError = SleepDurationMessage
    /\ updateRequests = << >>

\* ------------------------------------------------------------------------
\* C9
\* ------------------------------------------------------------------------

\* C9: when a delete succeeds the form values become bed 22:00, wake 06:00,
\* the three sleep levels 0 and the default timezone, and isExistingProfile
\* becomes false; when a delete fails neither changes.
C9_DeleteResets ==
    /\ [][deleteStatus = "pending" /\ deleteStatus' = "success"
          => /\ values'.bedTime = <<"2", "2", ":", "0", "0">>
             /\ values'.wakeupTime = <<"0", "6", ":", "0", "0">>
             /\ values'.initialSleepLevel = [whole |-> 0, tenth |-> 0]
             /\ values'.midStageSleepLevel = [whole |-> 0, tenth |-> 0]
             /\ values'.finalSleepLevel = [whole |-> 0, tenth |-> 0]
             /\ values'.timezone = [value |-> "America/New_York"]
             /\ isExistingProfile' = FALSE]_vars
    /\ [][deleteStatus = "pending" /\ deleteStatus' = "error"
          => /\ values' = values
             /\ isExistingProfile' = isExistingProfile]_vars

\* a delete succeeded after a profile was loaded and the user edited it
C9_Witness ==
    /\ pc = "form"
    /\ deleteStatus = "success"
    /\ query.status = "success"
    /\ edits > 0
    /\ values = defaultValues
    /\ ~isExistingProfile
    /\ ~isDirty

\* ------------------------------------------------------------------------
\* C10
\* ------------------------------------------------------------------------

\* C10: at most one write request and at most one delete request are in
\* flight in every reachable state.
C10_OneInFlight ==
    /\ Len(updateRequests) <= 1
    /\ deleteRequests <= 1

\* a write and a delete are both in flight, and the form is dirty, Valid and
\* accepted by the schema, so only the pending write disables the submit
C10_Witness ==
    /\ pc = "form"
    /\ Len(updateRequests) = 1
    /\ deleteRequests = 1
    /\ updateStatus = "pending"
    /\ deleteStatus = "pending"
    /\ isDirty
    /\ sleepDurationError = Null
    /\ SchemaAccepts(values)

\* ------------------------------------------------------------------------
\* C11
\* ------------------------------------------------------------------------

\* C11: no write request is issued between a delete request and the reset
\* its success performs: while a delete is in flight, no step adds a write
\* request.
C11_NoWriteDuringDelete ==
    [][deleteRequests > 0 => Len(updateRequests') <= Len(updateRequests)]_vars

====
